---- MODULE Spec2Model ----
(***************************************************************************)
(* Model of fix_roles.py: run_data_fix(dry_run), the reconciliation of the *)
(* user_roles collection of the document store (MongoDB) against the       *)
(* teams / user_team_details collections, mirrored into the relational     *)
(* table postgres_user_roles.                                              *)
(*                                                                         *)
(* One behaviour is a sequence of runs of run_data_fix over the same two   *)
(* stores.  Every store call of the function is one step; a store call may *)
(* raise while the fault budget of the behaviour allows it.                *)
(***************************************************************************)
EXTENDS Integers, Sequences, FiniteSets, TLC

\* ------------------------------------------------------------------ bounds
MaxMembers == 2      \* membership records in user_team_details
MaxRoles == 2        \* role records in user_roles before the first run
MaxRecords == 4      \* membership and role records together before the first run
MaxRuns == 2         \* consecutive runs of run_data_fix in one behaviour
MaxFaults == 1       \* store calls that may raise in one behaviour (SpecFault)

\* ------------------------------------------------------------- input sets
Users == {"U1", "U2", "U3"}

\* created_by of each team document
Creator(t) == IF t = "T1" THEN "U1" ELSE "U2"

\* class TeamRole(Enum), in definition order (the order of `for role in TeamRole`)
TeamRole == <<"owner", "admin", "member">>
MEMBER == TeamRole[3]

roles_scope == "TEAM"

\* str(ObjectId): the hexadecimal string of an identifier, injective
ObjectIdStr(id) == <<"oid", id>>

\* ---------------------------------------------------------------- records
RoleDoc(id, u, t, r, a) ==
    [id |-> id, user_id |-> u, team_id |-> t, role_name |-> r,
     scope |-> roles_scope, is_active |-> a]

PgRow(id, u, t, r, a) ==
    [mongo_id |-> ObjectIdStr(id), user_id |-> u, team_id |-> t, role_name |-> r,
     scope |-> "TEAM", is_active |-> a]

\* the relational projection of a document-store record
Mirror(d) == PgRow(d.id, d.user_id, d.team_id, d.role_name, d.is_active)

Range(s) == {s[i] : i \in 1..Len(s)}

VARIABLES
    teams,                \* collection teams: sequence of [id, created_by]
    details,              \* collection user_team_details: sequence of [user_id, team_id]
    user_roles,           \* collection user_roles: sequence of role documents
    next_id,              \* next identifier the document store generates
    pg_rows,              \* committed rows of postgres_user_roles
    pg_work,              \* rows as seen by the open transaction of pg_conn
    pc,                   \* position of the run inside run_data_fix
    run,                  \* number of the current run
    dry_run,              \* argument of run_data_fix
    mongo_client, pg_conn,            \* connection handles (FALSE models None)
    created_count, skipped_count, deleted_count, deactivated_count, error_count,
    bound_locals,         \* local names of run_data_fix that have been assigned
    teams_data, ti,       \* list(teams.find({})) and the index of the current team
    team_member_details, mi,          \* members of the current team, current index
    ri,                   \* index into TeamRole of the owner loop
    role_list, rj,        \* user_roles of the member loop / all_active_roles, index
    has_member_role,
    inserted_id,          \* result.inserted_id of the last insert_one
    budget,               \* store calls that may still raise
    runs_left,            \* runs of run_data_fix still to be started
    hist,                 \* history of the current run (observation only)
    prev                  \* result of the previous run (observation only)

vars == <<teams, details, user_roles, next_id, pg_rows, pg_work, pc, run, dry_run,
          mongo_client, pg_conn, created_count, skipped_count, deleted_count,
          deactivated_count, error_count, bound_locals, teams_data, ti,
          team_member_details, mi, ri, role_list, rj, has_member_role,
          inserted_id, budget, runs_left, hist, prev>>

stores == <<teams, details, user_roles, next_id, pg_rows, pg_work>>
counters == <<created_count, skipped_count, deleted_count, deactivated_count, error_count>>
conns == <<mongo_client, pg_conn>>
observed == <<prev, runs_left>>
locals == <<bound_locals, teams_data, ti, team_member_details, mi, ri, role_list, rj,
            has_member_role, inserted_id>>

\* -------------------------------------------------------- store queries
\* user_team_details_collection.find({"team_id": team_id})
FindDetails(t) == SelectSeq(details, LAMBDA m : m.team_id = t)

\* (mutant) the filter without role_name
FindActiveRoleAnyName(u, t, r) ==
    SelectSeq(user_roles, LAMBDA d : /\ d.user_id = u /\ d.team_id = t
                                     /\ d.scope = roles_scope /\ d.is_active)

\* user_roles_collection.find({user_id, team_id, scope, role_name, is_active: True})
FindActiveRole(u, t, r) ==
    SelectSeq(user_roles, LAMBDA d : /\ d.user_id = u /\ d.team_id = t
                                     /\ d.scope = roles_scope /\ d.role_name = r
                                     /\ d.is_active)

\* (mutant) the filter with is_active: False
FindInactiveRoles(u, t) ==
    SelectSeq(user_roles, LAMBDA d : /\ d.user_id = u /\ d.team_id = t
                                     /\ d.scope = roles_scope /\ ~d.is_active)

\* user_roles_collection.find({user_id, team_id, scope, is_active: True})
FindActiveRoles(u, t) ==
    SelectSeq(user_roles, LAMBDA d : /\ d.user_id = u /\ d.team_id = t
                                     /\ d.scope = roles_scope /\ d.is_active)

\* user_roles_collection.find({'is_active': True, 'scope': 'TEAM'})
FindAllActive == SelectSeq(user_roles, LAMBDA d : d.is_active /\ d.scope = "TEAM")

\* user_team_details_collection.find_one({user_id, team_id}) is not None
UserStillMember(u, t) == \E i \in 1..Len(details) :
                            details[i].user_id = u /\ details[i].team_id = t

\* ------------------------------------------------------ store mutations
\* user_roles_collection.insert_one(role_data)
InsertOne(coll, d) == Append(coll, d)

\* user_roles_collection.delete_one({"_id": id})
DeleteOne(coll, id) == SelectSeq(coll, LAMBDA d : d.id # id)

\* user_roles_collection.update_one({'_id': id}, {'$set': {'is_active': False}})
UpdateOneInactive(coll, id) ==
    [i \in 1..Len(coll) |-> IF coll[i].id = id
                            THEN [coll[i] EXCEPT !.is_active = FALSE]
                            ELSE coll[i]]

\* INSERT INTO postgres_user_roles (...) VALUES (...)
PgInsert(rows, row) == rows \cup {row}

\* DELETE FROM postgres_user_roles WHERE user_id AND team_id AND role_name AND scope
PgDelete(rows, u, t, r) ==
    {x \in rows : ~(x.user_id = u /\ x.team_id = t /\ x.role_name = r /\ x.scope = "TEAM")}

\* UPDATE postgres_user_roles SET is_active = False WHERE mongo_id = %s
PgUpdateInactive(rows, mid) ==
    {IF x.mongo_id = mid THEN [x EXCEPT !.is_active = FALSE] ELSE x : x \in rows}

\* ------------------------------------------------------------ the run
\* the outcomes of a store call: it returns (TRUE) or raises (FALSE)
Outcomes == IF budget > 0 THEN {TRUE, FALSE} ELSE {TRUE}

\* history of a run: the stores at its start and the store calls it made
NewHist == [roles0 |-> user_roles, pg0 |-> pg_rows, nfail |-> 0,
            inserted |-> {}, deleted |-> {}, deactivated |-> {},
            pg_inserted |-> {}, pg_exec |-> 0, commits |-> 0, rollbacks |-> 0,
            audited |-> {}, faulted |-> {}, partial |-> {}, reported |-> <<>>,
            acquired |-> {}, closed |-> {}]

NoPrev == [valid |-> FALSE]

\* a store call raised at position pc
HFail(h) == [h EXCEPT !.nfail = @ + 1, !.faulted = @ \cup {pc}]
HRollback(h) == [h EXCEPT !.rollbacks = @ + 1]

\* the team and the member the loops are at
CurTeam == teams_data[ti]
CurMember == team_member_details[mi]

\* def run_data_fix(dry_run): the counters and the handles before the try
StartRun(d) ==
    /\ pc = "Closed"
    /\ runs_left > 0
    /\ runs_left' = runs_left - 1
    /\ run' = run + 1
    /\ dry_run' = d
    /\ mongo_client' = FALSE /\ pg_conn' = FALSE
    /\ created_count' = 0 /\ skipped_count' = 0 /\ deleted_count' = 0
    /\ deactivated_count' = 0 /\ error_count' = 0
    /\ bound_locals' = {}
    /\ teams_data' = <<>> /\ ti' = 0 /\ team_member_details' = <<>> /\ mi' = 0
    /\ ri' = 0 /\ role_list' = <<>> /\ rj' = 0 /\ has_member_role' = FALSE
    /\ inserted_id' = 0
    /\ prev' = IF run = 0 THEN NoPrev
               ELSE [valid |-> TRUE, dry_run |-> dry_run, nfail |-> hist.nfail,
                     reported |-> hist.reported, roles0 |-> hist.roles0,
                     partial |-> hist.partial]
    /\ hist' = NewHist
    /\ pc' = "ConnectMongo"
    /\ UNCHANGED <<stores, budget>>

\* mongo_client = pymongo.MongoClient(MONGO_URI) and the three collections
ConnectMongo ==
    /\ pc = "ConnectMongo"
    /\ \E ok \in Outcomes :
         IF ok THEN /\ mongo_client' = TRUE
                    /\ pc' = "ConnectPg"
                    /\ hist' = [hist EXCEPT !.acquired = @ \cup {"mongo"}]
                    /\ UNCHANGED budget
               ELSE /\ pc' = "Critical"
                    /\ budget' = budget - 1
                    /\ hist' = HFail(hist)
                    /\ UNCHANGED mongo_client
    /\ UNCHANGED <<stores, run, dry_run, pg_conn, counters, locals, observed>>

\* (mutant) a failed PostgreSQL connection is logged and the audit goes on
ConnectPgOptional ==
    /\ pc = "ConnectPg"
    /\ \E ok \in Outcomes :
         IF ok THEN /\ pg_conn' = TRUE
                    /\ pc' = "LoadTeams"
                    /\ hist' = [hist EXCEPT !.acquired = @ \cup {"pg"}]
                    /\ UNCHANGED budget
               ELSE /\ pc' = "LoadTeams"
                    /\ budget' = budget - 1
                    /\ hist' = HFail(hist)
                    /\ UNCHANGED pg_conn
    /\ UNCHANGED <<stores, run, dry_run, mongo_client, counters, locals, observed>>

\* pg_conn = psycopg2.connect(...); pg_cursor = pg_conn.cursor()
ConnectPg ==
    /\ pc = "ConnectPg"
    /\ \E ok \in Outcomes :
         IF ok THEN /\ pg_conn' = TRUE
                    /\ pc' = "LoadTeams"
                    /\ hist' = [hist EXCEPT !.acquired = @ \cup {"pg"}]
                    /\ UNCHANGED budget
               ELSE /\ pc' = "Critical"
                    /\ budget' = budget - 1
                    /\ hist' = HFail(hist)
                    /\ UNCHANGED pg_conn
    /\ UNCHANGED <<stores, run, dry_run, mongo_client, counters, locals, observed>>

\* teams_data = list(teams_collection.find({}))
LoadTeams ==
    /\ pc = "LoadTeams"
    /\ \E ok \in Outcomes :
         IF ok THEN /\ teams_data' = teams
                    /\ ti' = 1
                    /\ pc' = "NextTeam"
                    /\ UNCHANGED <<budget, hist>>
               ELSE /\ pc' = "Critical"
                    /\ budget' = budget - 1
                    /\ hist' = HFail(hist)
                    /\ UNCHANGED <<teams_data, ti>>
    /\ UNCHANGED <<stores, run, dry_run, conns, counters, bound_locals,
                   team_member_details, mi, ri, role_list, rj, has_member_role,
                   inserted_id, observed>>

\* for teams in teams_data: team_member_details = list(...find({"team_id": team_id}))
NextTeam ==
    /\ pc = "NextTeam"
    /\ IF ti > Len(teams_data)
       THEN /\ pc' = "SweepLoad"
            /\ UNCHANGED <<team_member_details, mi, budget, hist>>
       ELSE \E ok \in Outcomes :
              IF ok THEN /\ team_member_details' = FindDetails(CurTeam.id)
                         /\ mi' = 1
                         /\ pc' = "NextMember"
                         /\ UNCHANGED <<budget, hist>>
                    ELSE /\ pc' = "Critical"
                         /\ budget' = budget - 1
                         /\ hist' = HFail(hist)
                         /\ UNCHANGED <<team_member_details, mi>>
    /\ UNCHANGED <<stores, run, dry_run, conns, counters, bound_locals, teams_data, ti,
                   ri, role_list, rj, has_member_role, inserted_id, observed>>

\* (mutant) the sweep starts as soon as the memberships of one team are exhausted
NextMemberSweeps ==
    /\ pc = "NextMember"
    /\ IF mi > Len(team_member_details)
       THEN /\ ti' = ti + 1
            /\ pc' = "SweepLoad"
            /\ UNCHANGED <<bound_locals, ri, hist>>
       ELSE /\ bound_locals' = bound_locals \cup {"member"}
            /\ hist' = [hist EXCEPT !.audited = @ \cup {<<ti, mi, 0>>}]
            /\ IF CurMember.user_id = CurTeam.created_by
               THEN ri' = 1 /\ pc' = "OwnerQuery"
               ELSE ri' = ri /\ pc' = "MemberQuery"
            /\ UNCHANGED ti
    /\ UNCHANGED <<stores, run, dry_run, conns, counters, teams_data,
                   team_member_details, mi, role_list, rj, has_member_role,
                   inserted_id, budget, observed>>

\* for member in team_member_details: if member["user_id"] == teams["created_by"]
NextMember ==
    /\ pc = "NextMember"
    /\ IF mi > Len(team_member_details)
       THEN /\ ti' = ti + 1
            /\ pc' = "NextTeam"
            /\ UNCHANGED <<bound_locals, ri, hist>>
       ELSE /\ bound_locals' = bound_locals \cup {"member"}
            /\ hist' = [hist EXCEPT !.audited = @ \cup {<<ti, mi, 0>>}]
            /\ IF CurMember.user_id = CurTeam.created_by
               THEN ri' = 1 /\ pc' = "OwnerQuery"
               ELSE ri' = ri /\ pc' = "MemberQuery"
            /\ UNCHANGED ti
    /\ UNCHANGED <<stores, run, dry_run, conns, counters, teams_data,
                   team_member_details, mi, role_list, rj, has_member_role,
                   inserted_id, budget, observed>>

\* --------------------------------------------------- exception handlers
\* history of a handler: the store call raised (faulted) and the rollback it issues;
\* an insert_one whose relational insert or commit raised is recorded as partial
HExcept(faulted, rolled_back) ==
    LET h1 == IF faulted THEN HFail(hist) ELSE hist
        h2 == IF rolled_back THEN HRollback(h1) ELSE h1
        h3 == IF pc \in {"OwnerQuery", "OwnerInsert", "OwnerPgInsert", "OwnerCommit"}
              THEN [h2 EXCEPT !.audited = @ \cup {<<ti, mi, ri>>}]
              ELSE h2
    IN  IF faulted /\ pc \in {"OwnerPgInsert", "OwnerCommit", "MemberPgInsert", "MemberCommit"}
        THEN [h3 EXCEPT !.partial = @ \cup {inserted_id}]
        ELSE h3

\* (mutant) no outer try: the exception leaves run_data_fix
RaiseUncaught(faulted) ==
    /\ pc' = "Closed"
    /\ hist' = IF faulted THEN HFail(hist) ELSE hist
    /\ budget' = IF faulted THEN budget - 1 ELSE budget
    /\ UNCHANGED <<error_count, pg_work, ti, mi, ri, rj>>

\* an exception outside the inner handlers reaches `except Exception` of the outer try
Raise(faulted) ==
    /\ pc' = "Critical"
    /\ hist' = IF faulted THEN HFail(hist) ELSE hist
    /\ budget' = IF faulted THEN budget - 1 ELSE budget
    /\ UNCHANGED <<error_count, pg_work, ti, mi, ri, rj>>

\* (mutant) the handler rolls back in dry-run mode too
HandlerRollsBackAlways == TRUE

\* `if not dry_run: pg_conn.rollback()` of the two Phase 1 handlers
HandlerRollsBack == ~dry_run

\* the statement the handler of the owner loop ends with: break leaves
\* `for role in TeamRole`, the member loop goes on with the next member
OwnerBreak ==
    /\ mi' = mi + 1
    /\ pc' = "NextMember"
    /\ UNCHANGED <<ti, ri, rj>>

\* (mutant) the owner loop without its handler: the exception reaches the outer try
OwnerExceptMissing(faulted) == Raise(faulted)

\* except Exception of the owner loop: error_count += 1; rollback unless dry_run; break
OwnerExcept(faulted) ==
    /\ error_count' = error_count + 1
    /\ pg_work' = IF HandlerRollsBack THEN pg_rows ELSE pg_work
    /\ hist' = HExcept(faulted, HandlerRollsBack)
    /\ budget' = IF faulted THEN budget - 1 ELSE budget
    /\ OwnerBreak

\* the statement the handler of the member branch ends with: break leaves
\* `for member in team_member_details`, the team loop goes on with the next team
MemberBreak ==
    /\ ti' = ti + 1
    /\ pc' = "NextTeam"
    /\ UNCHANGED <<mi, ri, rj>>

\* except Exception of the member branch: error_count += 1; rollback unless dry_run; break
MemberExcept(faulted) ==
    /\ error_count' = error_count + 1
    /\ pg_work' = IF HandlerRollsBack THEN pg_rows ELSE pg_work
    /\ hist' = HExcept(faulted, HandlerRollsBack)
    /\ budget' = IF faulted THEN budget - 1 ELSE budget
    /\ MemberBreak

\* (mutant) the handler of the sweep without pg_conn.rollback()
SweepExceptKeeps(faulted) ==
    /\ error_count' = error_count + 1
    /\ pg_work' = pg_work
    /\ hist' = HExcept(faulted, FALSE)
    /\ budget' = IF faulted THEN budget - 1 ELSE budget
    /\ rj' = rj + 1
    /\ pc' = "SweepRole"
    /\ UNCHANGED <<ti, mi, ri>>

\* except Exception inside the sweep: error_count += 1; pg_conn.rollback(); next role
SweepExcept(faulted) ==
    /\ error_count' = error_count + 1
    /\ pg_work' = pg_rows
    /\ hist' = HExcept(faulted, TRUE)
    /\ budget' = IF faulted THEN budget - 1 ELSE budget
    /\ rj' = rj + 1
    /\ pc' = "SweepRole"
    /\ UNCHANGED <<ti, mi, ri>>

\* --------------------------------------------------------- owner roles
\* the next role of `for role in TeamRole`, or the next member after the last role
OwnerNext ==
    IF ri < Len(TeamRole)
    THEN ri' = ri + 1 /\ pc' = "OwnerQuery" /\ UNCHANGED mi
    ELSE mi' = mi + 1 /\ pc' = "NextMember" /\ UNCHANGED ri

\* result = list(user_roles_collection.find(query_filter)), then the classification
OwnerQuery ==
    /\ pc = "OwnerQuery"
    /\ \E ok \in Outcomes :
         IF ok
         THEN LET result == FindActiveRole(CurTeam.created_by, CurTeam.id, TeamRole[ri])
              IN  /\ IF result # <<>>
                     THEN /\ skipped_count' = skipped_count + 1
                          /\ OwnerNext
                          /\ UNCHANGED created_count
                     ELSE IF dry_run
                          THEN /\ created_count' = created_count + 1
                               /\ OwnerNext
                               /\ UNCHANGED skipped_count
                          ELSE /\ pc' = "OwnerInsert"
                               /\ UNCHANGED <<created_count, skipped_count, mi, ri>>
                  /\ hist' = [hist EXCEPT !.audited = @ \cup {<<ti, mi, ri>>}]
                  /\ UNCHANGED <<error_count, pg_work, budget, ti, rj>>
         ELSE /\ OwnerExcept(TRUE)
              /\ UNCHANGED <<created_count, skipped_count>>
    /\ UNCHANGED <<teams, details, user_roles, next_id, pg_rows, run, dry_run, conns,
                   deleted_count, deactivated_count, bound_locals, teams_data,
                   team_member_details, role_list, has_member_role, inserted_id, observed>>

\* result = user_roles_collection.insert_one(role_data)
OwnerInsert ==
    /\ pc = "OwnerInsert"
    /\ \E ok \in Outcomes :
         IF ok
         THEN /\ user_roles' = InsertOne(user_roles,
                     RoleDoc(next_id, CurTeam.created_by, CurTeam.id, TeamRole[ri], TRUE))
              /\ inserted_id' = next_id
              /\ next_id' = next_id + 1
              /\ hist' = [hist EXCEPT !.inserted = @ \cup {next_id}]
              /\ pc' = "OwnerPgInsert"
              /\ UNCHANGED <<error_count, pg_work, budget, ti, mi, ri, rj>>
         ELSE /\ OwnerExcept(TRUE)
              /\ UNCHANGED <<user_roles, inserted_id, next_id>>
    /\ UNCHANGED <<teams, details, pg_rows, run, dry_run, conns, created_count,
                   skipped_count, deleted_count, deactivated_count, bound_locals,
                   teams_data, team_member_details, role_list, has_member_role, observed>>

\* (mutant) the row is tagged with an identifier the document store has not
\* generated yet
OwnerPgInsertOtherId ==
    /\ pc = "OwnerPgInsert"
    /\ \E ok \in Outcomes :
         IF ok
         THEN /\ pg_work' = PgInsert(pg_work,
                     PgRow(next_id, CurTeam.created_by, CurTeam.id, TeamRole[ri], TRUE))
              /\ hist' = [hist EXCEPT !.pg_exec = @ + 1,
                                      !.pg_inserted = @ \cup {ObjectIdStr(next_id)}]
              /\ pc' = "OwnerCommit"
              /\ UNCHANGED <<error_count, budget, ti, mi, ri, rj>>
         ELSE OwnerExcept(TRUE)
    /\ UNCHANGED <<teams, details, user_roles, next_id, pg_rows, run, dry_run, conns,
                   created_count, skipped_count, deleted_count, deactivated_count,
                   bound_locals, teams_data, team_member_details, role_list,
                   has_member_role, inserted_id, observed>>

\* pg_cursor.execute(pg_insert_sql, pg_insert_params)
OwnerPgInsert ==
    /\ pc = "OwnerPgInsert"
    /\ \E ok \in Outcomes :
         IF ok
         THEN /\ pg_work' = PgInsert(pg_work,
                     PgRow(inserted_id, CurTeam.created_by, CurTeam.id, TeamRole[ri], TRUE))
              /\ hist' = [hist EXCEPT !.pg_exec = @ + 1,
                                      !.pg_inserted = @ \cup {ObjectIdStr(inserted_id)}]
              /\ pc' = "OwnerCommit"
              /\ UNCHANGED <<error_count, budget, ti, mi, ri, rj>>
         ELSE OwnerExcept(TRUE)
    /\ UNCHANGED <<teams, details, user_roles, next_id, pg_rows, run, dry_run, conns,
                   created_count, skipped_count, deleted_count, deactivated_count,
                   bound_locals, teams_data, team_member_details, role_list,
                   has_member_role, inserted_id, observed>>

\* pg_conn.commit(); created_count += 1
OwnerCommit ==
    /\ pc = "OwnerCommit"
    /\ \E ok \in Outcomes :
         IF ok
         THEN /\ pg_rows' = pg_work
              /\ created_count' = created_count + 1
              /\ hist' = [hist EXCEPT !.commits = @ + 1]
              /\ OwnerNext
              /\ UNCHANGED <<error_count, pg_work, budget, ti, rj>>
         ELSE /\ OwnerExcept(TRUE)
              /\ UNCHANGED <<pg_rows, created_count>>
    /\ UNCHANGED <<teams, details, user_roles, next_id, run, dry_run, conns,
                   skipped_count, deleted_count, deactivated_count, bound_locals,
                   teams_data, team_member_details, role_list, has_member_role,
                   inserted_id, observed>>

\* -------------------------------------------------------- member roles
\* user_roles = list(user_roles_collection.find(query_filter)); has_member_role = False
MemberQuery ==
    /\ pc = "MemberQuery"
    /\ \E ok \in Outcomes :
         IF ok
         THEN /\ role_list' = FindActiveRoles(CurMember.user_id, CurTeam.id)
              /\ rj' = 1
              /\ has_member_role' = FALSE
              /\ pc' = "MemberRole"
              /\ UNCHANGED <<error_count, pg_work, hist, budget, ti, mi, ri>>
         ELSE /\ MemberExcept(TRUE)
              /\ UNCHANGED <<role_list, has_member_role>>
    /\ UNCHANGED <<teams, details, user_roles, next_id, pg_rows, run, dry_run, conns,
                   created_count, skipped_count, deleted_count, deactivated_count,
                   bound_locals, teams_data, team_member_details, inserted_id, observed>>

\* for role in user_roles: skip a member role, or classify another role for deletion;
\* after the loop, if not has_member_role: classify the missing member role
MemberRole ==
    /\ pc = "MemberRole"
    /\ IF rj > Len(role_list)
       THEN IF has_member_role
            THEN /\ mi' = mi + 1
                 /\ pc' = "NextMember"
                 /\ UNCHANGED <<created_count, skipped_count, deleted_count, rj,
                                has_member_role>>
            ELSE IF dry_run
                 THEN /\ created_count' = created_count + 1
                      /\ mi' = mi + 1
                      /\ pc' = "NextMember"
                      /\ UNCHANGED <<skipped_count, deleted_count, rj, has_member_role>>
                 ELSE /\ pc' = "MemberInsert"
                      /\ UNCHANGED <<created_count, skipped_count, deleted_count, mi, rj,
                                     has_member_role>>
       ELSE IF role_list[rj].role_name = MEMBER
            THEN /\ has_member_role' = TRUE
                 /\ skipped_count' = skipped_count + 1
                 /\ rj' = rj + 1
                 /\ pc' = "MemberRole"
                 /\ UNCHANGED <<created_count, deleted_count, mi>>
            ELSE IF dry_run
                 THEN /\ deleted_count' = deleted_count + 1
                      /\ rj' = rj + 1
                      /\ pc' = "MemberRole"
                      /\ UNCHANGED <<created_count, skipped_count, mi, has_member_role>>
                 ELSE /\ pc' = "MemberDelete"
                      /\ UNCHANGED <<created_count, skipped_count, deleted_count, mi, rj,
                                     has_member_role>>
    /\ UNCHANGED <<stores, run, dry_run, conns, deactivated_count, error_count,
                   bound_locals, teams_data, ti, team_member_details, ri, role_list,
                   inserted_id, budget, hist, observed>>

\* user_roles_collection.delete_one({"_id": role["_id"]})
MemberDelete ==
    /\ pc = "MemberDelete"
    /\ \E ok \in Outcomes :
         IF ok
         THEN /\ user_roles' = DeleteOne(user_roles, role_list[rj].id)
              /\ hist' = [hist EXCEPT !.deleted = @ \cup {role_list[rj].id}]
              /\ pc' = "MemberPgDelete"
              /\ UNCHANGED <<error_count, pg_work, budget, ti, mi, ri, rj>>
         ELSE /\ MemberExcept(TRUE)
              /\ UNCHANGED user_roles
    /\ UNCHANGED <<teams, details, next_id, pg_rows, run, dry_run, conns, created_count,
                   skipped_count, deleted_count, deactivated_count, bound_locals,
                   teams_data, team_member_details, role_list, has_member_role,
                   inserted_id, observed>>

\* pg_cursor.execute(pg_delete_sql, (member["user_id"], team_id, role["role_name"], 'TEAM'))
MemberPgDelete ==
    /\ pc = "MemberPgDelete"
    /\ \E ok \in Outcomes :
         IF ok
         THEN /\ pg_work' = PgDelete(pg_work, CurMember.user_id, CurTeam.id,
                                     role_list[rj].role_name)
              /\ hist' = [hist EXCEPT !.pg_exec = @ + 1]
              /\ pc' = "MemberDelCommit"
              /\ UNCHANGED <<error_count, budget, ti, mi, ri, rj>>
         ELSE MemberExcept(TRUE)
    /\ UNCHANGED <<teams, details, user_roles, next_id, pg_rows, run, dry_run, conns,
                   created_count, skipped_count, deleted_count, deactivated_count,
                   bound_locals, teams_data, team_member_details, role_list,
                   has_member_role, inserted_id, observed>>

\* pg_conn.commit(); deleted_count += 1
MemberDelCommit ==
    /\ pc = "MemberDelCommit"
    /\ \E ok \in Outcomes :
         IF ok
         THEN /\ pg_rows' = pg_work
              /\ deleted_count' = deleted_count + 1
              /\ hist' = [hist EXCEPT !.commits = @ + 1]
              /\ rj' = rj + 1
              /\ pc' = "MemberRole"
              /\ UNCHANGED <<error_count, pg_work, budget, ti, mi, ri>>
         ELSE /\ MemberExcept(TRUE)
              /\ UNCHANGED <<pg_rows, deleted_count>>
    /\ UNCHANGED <<teams, details, user_roles, next_id, run, dry_run, conns,
                   created_count, skipped_count, deactivated_count, bound_locals,
                   teams_data, team_member_details, role_list, has_member_role,
                   inserted_id, observed>>

\* result = user_roles_collection.insert_one(role_data) of the member role
MemberInsert ==
    /\ pc = "MemberInsert"
    /\ \E ok \in Outcomes :
         IF ok
         THEN /\ user_roles' = InsertOne(user_roles,
                     RoleDoc(next_id, CurMember.user_id, CurTeam.id, MEMBER, TRUE))
              /\ inserted_id' = next_id
              /\ next_id' = next_id + 1
              /\ hist' = [hist EXCEPT !.inserted = @ \cup {next_id}]
              /\ pc' = "MemberPgInsert"
              /\ UNCHANGED <<error_count, pg_work, budget, ti, mi, ri, rj>>
         ELSE /\ MemberExcept(TRUE)
              /\ UNCHANGED <<user_roles, inserted_id, next_id>>
    /\ UNCHANGED <<teams, details, pg_rows, run, dry_run, conns, created_count,
                   skipped_count, deleted_count, deactivated_count, bound_locals,
                   teams_data, team_member_details, role_list, has_member_role, observed>>

\* pg_cursor.execute(pg_insert_sql, pg_insert_params) of the member role
MemberPgInsert ==
    /\ pc = "MemberPgInsert"
    /\ \E ok \in Outcomes :
         IF ok
         THEN /\ pg_work' = PgInsert(pg_work,
                     PgRow(inserted_id, CurMember.user_id, CurTeam.id, MEMBER, TRUE))
              /\ hist' = [hist EXCEPT !.pg_exec = @ + 1,
                                      !.pg_inserted = @ \cup {ObjectIdStr(inserted_id)}]
              /\ pc' = "MemberCommit"
              /\ UNCHANGED <<error_count, budget, ti, mi, ri, rj>>
         ELSE MemberExcept(TRUE)
    /\ UNCHANGED <<teams, details, user_roles, next_id, pg_rows, run, dry_run, conns,
                   created_count, skipped_count, deleted_count, deactivated_count,
                   bound_locals, teams_data, team_member_details, role_list,
                   has_member_role, inserted_id, observed>>

\* the name fixed_count is assigned nowhere in run_data_fix before `fixed_count += 1`
FixedCountBound == "fixed_count" \in bound_locals

\* pg_conn.commit(); fixed_count += 1.  Reading the unbound local fixed_count raises
\* UnboundLocalError after the commit; the handler of the member branch catches it
\* (error_count += 1, a rollback of the empty transaction, break).
MemberCommit ==
    /\ pc = "MemberCommit"
    /\ \E ok \in Outcomes :
         IF ok
         THEN /\ pg_rows' = pg_work
              /\ IF FixedCountBound
                 THEN /\ mi' = mi + 1
                      /\ pc' = "NextMember"
                      /\ hist' = [hist EXCEPT !.commits = @ + 1]
                      /\ UNCHANGED <<error_count, ti, ri, rj>>
                 ELSE /\ error_count' = error_count + 1
                      /\ hist' = HRollback([hist EXCEPT !.commits = @ + 1])
                      /\ MemberBreak
              /\ UNCHANGED <<pg_work, budget>>
         ELSE /\ MemberExcept(TRUE)
              /\ UNCHANGED pg_rows
    /\ UNCHANGED <<teams, details, user_roles, next_id, run, dry_run, conns,
                   created_count, skipped_count, deleted_count, deactivated_count,
                   bound_locals, teams_data, team_member_details, role_list,
                   has_member_role, inserted_id, observed>>

\* ------------------------------------------------------ lingering roles
\* all_active_roles = list(user_roles_collection.find({'is_active': True, 'scope': 'TEAM'}))
SweepLoad ==
    /\ pc = "SweepLoad"
    /\ \E ok \in Outcomes :
         IF ok
         THEN /\ role_list' = FindAllActive
              /\ rj' = 1
              /\ pc' = "SweepRole"
              /\ UNCHANGED <<error_count, pg_work, hist, budget, ti, mi, ri>>
         ELSE /\ Raise(TRUE)
              /\ UNCHANGED role_list
    /\ UNCHANGED <<teams, details, user_roles, next_id, pg_rows, run, dry_run, conns,
                   created_count, skipped_count, deleted_count, deactivated_count,
                   bound_locals, teams_data, team_member_details, has_member_role,
                   inserted_id, observed>>

\* the f-strings of the two [DEACTIVATE] messages read member["user_id"]: the loop
\* variable of Phase 1, unbound when no membership record was iterated
MemberBound == "member" \in bound_locals

\* for role in all_active_roles: user_still_member = ...find_one(...); the
\* classification of a lingering role
SweepRole ==
    /\ pc = "SweepRole"
    /\ IF rj > Len(role_list)
       THEN /\ pc' = "Report"
            /\ UNCHANGED <<deactivated_count, error_count, pg_work, hist, budget,
                           ti, mi, ri, rj>>
       ELSE \E ok \in Outcomes :
              IF ok
              THEN IF UserStillMember(role_list[rj].user_id, role_list[rj].team_id)
                   THEN /\ rj' = rj + 1
                        /\ pc' = "SweepRole"
                        /\ UNCHANGED <<deactivated_count, error_count, pg_work, hist,
                                       budget, ti, mi, ri>>
                   ELSE IF ~MemberBound
                        THEN /\ Raise(FALSE)
                             /\ UNCHANGED deactivated_count
                        ELSE IF dry_run
                             THEN /\ deactivated_count' = deactivated_count + 1
                                  /\ rj' = rj + 1
                                  /\ pc' = "SweepRole"
                                  /\ UNCHANGED <<error_count, pg_work, hist, budget,
                                                 ti, mi, ri>>
                             ELSE /\ pc' = "SweepUpdate"
                                  /\ UNCHANGED <<deactivated_count, error_count, pg_work,
                                                 hist, budget, ti, mi, ri, rj>>
              ELSE /\ Raise(TRUE)
                   /\ UNCHANGED deactivated_count
    /\ UNCHANGED <<teams, details, user_roles, next_id, pg_rows, run, dry_run, conns,
                   created_count, skipped_count, deleted_count, bound_locals,
                   teams_data, team_member_details, role_list, has_member_role,
                   inserted_id, observed>>

\* user_roles_collection.update_one({'_id': role["_id"]}, {'$set': {'is_active': False}})
SweepUpdate ==
    /\ pc = "SweepUpdate"
    /\ \E ok \in Outcomes :
         IF ok
         THEN /\ user_roles' = UpdateOneInactive(user_roles, role_list[rj].id)
              /\ hist' = [hist EXCEPT !.deactivated = @ \cup {role_list[rj].id}]
              /\ pc' = "SweepPgUpdate"
              /\ UNCHANGED <<error_count, pg_work, budget, ti, mi, ri, rj>>
         ELSE /\ SweepExcept(TRUE)
              /\ UNCHANGED user_roles
    /\ UNCHANGED <<teams, details, next_id, pg_rows, run, dry_run, conns, created_count,
                   skipped_count, deleted_count, deactivated_count, bound_locals,
                   teams_data, team_member_details, role_list, has_member_role,
                   inserted_id, observed>>

\* pg_cursor.execute(pg_update_sql, (False, current_time, str(role["_id"])))
SweepPgUpdate ==
    /\ pc = "SweepPgUpdate"
    /\ \E ok \in Outcomes :
         IF ok
         THEN /\ pg_work' = PgUpdateInactive(pg_work, ObjectIdStr(role_list[rj].id))
              /\ hist' = [hist EXCEPT !.pg_exec = @ + 1]
              /\ pc' = "SweepCommit"
              /\ UNCHANGED <<error_count, budget, ti, mi, ri, rj>>
         ELSE SweepExcept(TRUE)
    /\ UNCHANGED <<teams, details, user_roles, next_id, pg_rows, run, dry_run, conns,
                   created_count, skipped_count, deleted_count, deactivated_count,
                   bound_locals, teams_data, team_member_details, role_list,
                   has_member_role, inserted_id, observed>>

\* pg_conn.commit(); deactivated_count += 1
SweepCommit ==
    /\ pc = "SweepCommit"
    /\ \E ok \in Outcomes :
         IF ok
         THEN /\ pg_rows' = pg_work
              /\ deactivated_count' = deactivated_count + 1
              /\ hist' = [hist EXCEPT !.commits = @ + 1]
              /\ rj' = rj + 1
              /\ pc' = "SweepRole"
              /\ UNCHANGED <<error_count, pg_work, budget, ti, mi, ri>>
         ELSE /\ SweepExcept(TRUE)
              /\ UNCHANGED <<pg_rows, deactivated_count>>
    /\ UNCHANGED <<teams, details, user_roles, next_id, run, dry_run, conns,
                   created_count, skipped_count, deleted_count, bound_locals,
                   teams_data, team_member_details, role_list, has_member_role,
                   inserted_id, observed>>

\* (mutant) the outer except reconnects and starts the audit again
CriticalRetries ==
    /\ pc = "Critical"
    /\ IF pg_conn /\ ~dry_run
       THEN pg_work' = pg_rows /\ hist' = HRollback(hist)
       ELSE UNCHANGED <<pg_work, hist>>
    /\ pc' = "ConnectMongo"
    /\ UNCHANGED <<teams, details, user_roles, next_id, pg_rows, run, dry_run, conns,
                   counters, locals, budget, observed>>

\* ------------------------------------------------------- end of the run
\* except Exception as e: ... if pg_conn and not dry_run: pg_conn.rollback()
Critical ==
    /\ pc = "Critical"
    /\ IF pg_conn /\ ~dry_run
       THEN pg_work' = pg_rows /\ hist' = HRollback(hist)
       ELSE UNCHANGED <<pg_work, hist>>
    /\ pc' = "Report"
    /\ UNCHANGED <<teams, details, user_roles, next_id, pg_rows, run, dry_run, conns,
                   counters, locals, budget, observed>>

\* finally: the final summary of the five counters
Report ==
    /\ pc = "Report"
    /\ hist' = [hist EXCEPT !.reported =
                   [created |-> created_count, deleted |-> deleted_count,
                    deactivated |-> deactivated_count, skipped |-> skipped_count,
                    errors |-> error_count]]
    /\ pc' = "Close"
    /\ UNCHANGED <<stores, run, dry_run, conns, counters, locals, budget, observed>>

\* if mongo_client: mongo_client.close(); if pg_conn: pg_conn.close()
\* (closing the relational connection discards its uncommitted work)
Close ==
    /\ pc = "Close"
    /\ hist' = [hist EXCEPT !.closed = (IF mongo_client THEN {"mongo"} ELSE {})
                                       \cup (IF pg_conn THEN {"pg"} ELSE {})]
    /\ pg_work' = pg_rows
    /\ pc' = "Closed"
    /\ UNCHANGED <<teams, details, user_roles, next_id, pg_rows, run, dry_run, conns,
                   counters, locals, budget, observed>>

\* ------------------------------------------------------- initial states
UserSeq == <<"U1", "U2", "U3">>
TeamSeq == <<"T1", "T2">>
RoleFlags == <<TRUE, FALSE>>

PerTeam == Len(UserSeq) * Len(TeamRole) * Len(RoleFlags)

\* the k-th role record an initial user_roles collection may hold (k from 0):
\* team, user, role name and active flag, in that order of significance
RoleChoice(k) ==
    [team_id |-> TeamSeq[(k \div PerTeam) + 1],
     user_id |-> UserSeq[((k % PerTeam) \div (Len(TeamRole) * Len(RoleFlags))) + 1],
     role_name |-> TeamRole[((k \div Len(RoleFlags)) % Len(TeamRole)) + 1],
     is_active |-> RoleFlags[(k % Len(RoleFlags)) + 1]]

\* collections of at most n role records of the first nt teams (several records
\* may share user, team and role), with identifiers 1, 2, ... in collection order
RoleCollections(nt, n) ==
    LET picks == UNION {[1..m -> 0..(nt * PerTeam - 1)] : m \in 0..n}
        sorted == {s \in picks : \A i \in 1..(Len(s) - 1) : s[i] <= s[i + 1]}
    IN  {[i \in 1..Len(s) |->
             RoleDoc(i, RoleChoice(s[i]).user_id, RoleChoice(s[i]).team_id,
                     RoleChoice(s[i]).role_name, RoleChoice(s[i]).is_active)] : s \in sorted}

\* membership collections of at most n records of the first nt teams, in any order
DetailCollections(nt, n) ==
    UNION {[1..m -> {[user_id |-> u, team_id |-> TeamSeq[k]] : u \in Users, k \in 1..nt}]
              : m \in 0..n}

TeamDoc(t) == [id |-> t, created_by |-> Creator(t)]

\* the teams collection with the first nt teams
TeamCollection(nt) == [k \in 1..nt |-> TeamDoc(TeamSeq[k])]

InitLocals ==
    /\ pc = "Closed" /\ run = 0 /\ dry_run = TRUE
    /\ mongo_client = FALSE /\ pg_conn = FALSE
    /\ created_count = 0 /\ skipped_count = 0 /\ deleted_count = 0
    /\ deactivated_count = 0 /\ error_count = 0
    /\ bound_locals = {}
    /\ teams_data = <<>> /\ ti = 0 /\ team_member_details = <<>> /\ mi = 0
    /\ ri = 0 /\ role_list = <<>> /\ rj = 0 /\ has_member_role = FALSE
    /\ inserted_id = 0
    /\ prev = NoPrev

\* the stores before the first run: nt teams, at most nm membership records and
\* nr role records, n records together
InitStores(nt, nm, nr, n) ==
    /\ teams = TeamCollection(nt)
    /\ details \in DetailCollections(nt, nm)
    /\ user_roles \in RoleCollections(nt, nr)
    /\ Len(details) + Len(user_roles) <= n

\* the scenario of the specification: team T1 created by U1 with members U1 and U2;
\* U1 holds member, U2 holds admin and member (records in either order)
ScenarioDetails ==
    {<<[user_id |-> "U1", team_id |-> "T1"], [user_id |-> "U2", team_id |-> "T1"]>>,
     <<[user_id |-> "U2", team_id |-> "T1"], [user_id |-> "U1", team_id |-> "T1"]>>}

ScenarioRoles ==
    {<<RoleDoc(1, "U1", "T1", "member", TRUE), RoleDoc(2, "U2", "T1", "admin", TRUE),
       RoleDoc(3, "U2", "T1", "member", TRUE)>>,
     <<RoleDoc(1, "U2", "T1", "member", TRUE), RoleDoc(2, "U2", "T1", "admin", TRUE),
       RoleDoc(3, "U1", "T1", "member", TRUE)>>}

InitScenario ==
    /\ teams = TeamCollection(1)
    /\ details \in ScenarioDetails
    /\ user_roles \in ScenarioRoles

\* the relational table mirrors the document store before the first run
InitMirror ==
    /\ next_id = Len(user_roles) + 1
    /\ pg_rows = {Mirror(user_roles[i]) : i \in 1..Len(user_roles)}
    /\ pg_work = pg_rows
    /\ hist = NewHist

\* one team with up to MaxMembers memberships and MaxRoles roles, two teams with
\* fewer records, or the scenario
InitInputs ==
    /\ \/ InitStores(1, MaxMembers, MaxRoles, MaxRecords)
       \/ InitStores(2, MaxMembers, MaxRoles - 1, MaxRecords - 2)
       \/ InitScenario
    /\ InitMirror

\* one run, no store call raises
Init ==
    /\ InitInputs
    /\ budget = 0
    /\ runs_left = 1
    /\ InitLocals

\* MaxRuns consecutive runs, no store call raises
InitRerun ==
    /\ InitInputs
    /\ budget = 0
    /\ runs_left = MaxRuns
    /\ InitLocals

\* one run in which up to MaxFaults store calls raise
InitFault ==
    /\ \/ InitStores(1, MaxMembers, MaxRoles - 1, MaxRecords - 1)
       \/ InitScenario
    /\ InitMirror
    /\ budget = MaxFaults
    /\ runs_left = 1
    /\ InitLocals

\* one run in which up to MaxFaults store calls raise, over smaller stores
InitLive ==
    /\ \/ InitStores(1, MaxMembers, MaxRoles - 1, MaxRecords - 2)
       \/ InitScenario
    /\ InitMirror
    /\ budget = MaxFaults
    /\ runs_left = 1
    /\ InitLocals

\* MaxRuns consecutive runs in which up to MaxFaults store calls raise
InitRecover ==
    /\ \/ InitStores(1, MaxMembers, MaxRoles - 1, MaxRecords - 2)
       \/ InitScenario
    /\ InitMirror
    /\ budget = MaxFaults
    /\ runs_left = MaxRuns
    /\ InitLocals

Next ==
    \/ \E d \in BOOLEAN : StartRun(d)
    \/ ConnectMongo
    \/ ConnectPg
    \/ LoadTeams
    \/ NextTeam
    \/ NextMember
    \/ OwnerQuery
    \/ OwnerInsert
    \/ OwnerPgInsert
    \/ OwnerCommit
    \/ MemberQuery
    \/ MemberRole
    \/ MemberDelete
    \/ MemberPgDelete
    \/ MemberDelCommit
    \/ MemberInsert
    \/ MemberPgInsert
    \/ MemberCommit
    \/ SweepLoad
    \/ SweepRole
    \/ SweepUpdate
    \/ SweepPgUpdate
    \/ SweepCommit
    \/ Critical
    \/ Report
    \/ Close

Spec == Init /\ [][Next]_vars

SpecRerun == InitRerun /\ [][Next]_vars

SpecFault == InitFault /\ [][Next]_vars

SpecRecover == InitRecover /\ [][Next]_vars

\* run_data_fix is sequential and every store call returns or raises: a step that
\* can be taken is taken
SpecLive == InitLive /\ [][Next]_vars /\ WF_vars(Next)

\* ------------------------------------------------------------ properties
\* a run has ended
Done == pc = "Closed" /\ run >= 1

\* a live run has ended and none of its store calls raised
LiveDone == Done /\ ~dry_run /\ hist.nfail = 0

\* the names of the active TEAM roles user u holds for team t in collection coll
ActiveRoleNames(coll, u, t) ==
    {coll[i].role_name : i \in {j \in 1..Len(coll) :
                                  /\ coll[j].user_id = u /\ coll[j].team_id = t
                                  /\ coll[j].scope = "TEAM" /\ coll[j].is_active}}

\* C1: in a dry run, at every point of the run, the role records of the document
\* store and the relational rows are those of the start of the run, and the run
\* has issued no insert, delete, update, SQL statement, commit or rollback.
C1_DryRunPure ==
    (run >= 1 /\ dry_run) =>
        /\ user_roles = hist.roles0
        /\ pg_rows = hist.pg0
        /\ pg_work = hist.pg0
        /\ hist.inserted = {} /\ hist.deleted = {} /\ hist.deactivated = {}
        /\ hist.pg_exec = 0 /\ hist.commits = 0 /\ hist.rollbacks = 0

\* a dry run that classified a creation, a deletion and a handler's error has ended
C1_Witness ==
    /\ Done /\ dry_run
    /\ created_count + deleted_count + deactivated_count > 0
    /\ error_count > 0

\* C2 (as claimed): after a live run without a store failure, every non-creator
\* member of every team holds exactly the active TEAM role member for that team.
C2_MemberCorrected ==
    LiveDone =>
        \A i \in 1..Len(details), k \in 1..Len(teams) :
            (details[i].team_id = teams[k].id /\ details[i].user_id # teams[k].created_by)
                => ActiveRoleNames(user_roles, details[i].user_id, teams[k].id) = {"member"}

\* C3 (as claimed): a run that follows a live run without a store failure, with
\* no store failure of its own, classifies no creation, deletion or deactivation
\* and, in live mode, leaves both stores as it found them.
C3_Idempotent ==
    (Done /\ prev.valid /\ ~prev.dry_run /\ prev.nfail = 0 /\ hist.nfail = 0) =>
        /\ created_count = 0 /\ deleted_count = 0 /\ deactivated_count = 0
        /\ ~dry_run => (user_roles = hist.roles0 /\ pg_rows = hist.pg0)

\* C4 (as claimed, for the teams whose creator has a membership record in the
\* team): after a live run without a store failure the creator holds active
\* owner, admin and member records, and every active record the creator held
\* before the run is still there, unchanged.
C4_CreatorComplete ==
    LiveDone =>
        \A k \in 1..Len(teams) :
            UserStillMember(teams[k].created_by, teams[k].id) =>
                /\ {"owner", "admin", "member"}
                       \subseteq ActiveRoleNames(user_roles, teams[k].created_by, teams[k].id)
                /\ \A j \in 1..Len(hist.roles0) :
                       (/\ hist.roles0[j].user_id = teams[k].created_by
                        /\ hist.roles0[j].team_id = teams[k].id
                        /\ hist.roles0[j].is_active)
                           => hist.roles0[j] \in Range(user_roles)

\* the records of coll that the sweep finds lingering: active, TEAM-scoped, no membership
Lingering(coll) ==
    {j \in 1..Len(coll) : /\ coll[j].is_active /\ coll[j].scope = "TEAM"
                          /\ ~UserStillMember(coll[j].user_id, coll[j].team_id)}

\* C5 (as claimed): after a live run without a store failure no role record
\* without a membership is active, deactivated_count is the number of records
\* that were lingering, and no record with a membership was deactivated.
C5_OrphanSweep ==
    LiveDone =>
        /\ Lingering(user_roles) = {}
        /\ deactivated_count = Cardinality(Lingering(hist.roles0))
        /\ \A j \in 1..Len(hist.roles0) :
               UserStillMember(hist.roles0[j].user_id, hist.roles0[j].team_id)
                   => hist.roles0[j].id \notin hist.deactivated

\* the store calls of Phase 1 that the two inner handlers guard
PerActionCalls ==
    {"OwnerQuery", "OwnerInsert", "OwnerPgInsert", "OwnerCommit", "MemberQuery",
     "MemberDelete", "MemberPgDelete", "MemberDelCommit", "MemberInsert",
     "MemberPgInsert", "MemberCommit"}

\* every membership of every team (role index 0) and every role of every creator
\* membership, as <<team index, member index, role index>>
AllAudits ==
    UNION {LET ms == FindDetails(teams[k].id)
           IN  {<<k, m, 0>> : m \in 1..Len(ms)}
               \cup {<<k, m, r>> : m \in {n \in 1..Len(ms) : ms[n].user_id = teams[k].created_by},
                                   r \in 1..Len(TeamRole)}
           : k \in 1..Len(teams)}

\* C6 (as claimed): when store calls of Phase 1 raise in live mode, each is
\* counted as an error and the run still audits every role of every creator
\* membership and every membership of every team.
C6_FailureIsolation ==
    (Done /\ ~dry_run /\ hist.faulted # {} /\ hist.faulted \subseteq PerActionCalls) =>
        /\ error_count >= hist.nfail
        /\ AllAudits \subseteq hist.audited

\* C7 (as claimed): a live run without a store failure reports the created,
\* deleted, deactivated and skipped counts that the dry run before it reported
\* for the same stores.
C7_DryLiveAgree ==
    (/\ Done /\ prev.valid /\ prev.dry_run /\ prev.nfail = 0
     /\ ~dry_run /\ hist.nfail = 0 /\ prev.roles0 = hist.roles0) =>
        \A f \in {"created", "deleted", "deactivated", "skipped"} :
            prev.reported[f] = hist.reported[f]

\* C8 (as claimed): the summary of a live run without a store failure reports as
\* created, deleted and deactivated the numbers of records the run inserted,
\* deleted and set inactive in the document store, and zero errors.
C8_CountersReal ==
    LiveDone =>
        /\ hist.reported.created = Cardinality(hist.inserted)
        /\ hist.reported.deleted = Cardinality(hist.deleted)
        /\ hist.reported.deactivated = Cardinality(hist.deactivated)
        /\ hist.reported.errors = 0

\* the run started from the scenario: T1 created by U1, members U1 and U2,
\* U1 holds member, U2 holds admin and member
Scenario ==
    /\ teams = TeamCollection(1)
    /\ details \in ScenarioDetails
    /\ hist.roles0 \in ScenarioRoles

ScenarioRolesAfter ==
    /\ ActiveRoleNames(user_roles, "U1", "T1") = {"owner", "admin", "member"}
    /\ ActiveRoleNames(user_roles, "U2", "T1") = {"member"}

\* C9 (as claimed): after a live run of the scenario U1 holds owner, admin and
\* member, U2 holds member, and created = 2, deleted = 1, skipped = 1.
C9_ScenarioClaimed ==
    (LiveDone /\ Scenario) =>
        /\ ScenarioRolesAfter
        /\ created_count = 2 /\ deleted_count = 1 /\ skipped_count = 1

\* C9 (amended): after a live run of the scenario U1 holds owner, admin and
\* member, U2 holds member, and created = 2, deleted = 1, skipped = 2 (the
\* member records of U1 and of U2 are both counted as skipped).
C9_Scenario ==
    (LiveDone /\ Scenario) =>
        /\ ScenarioRolesAfter
        /\ created_count = 2 /\ deleted_count = 1 /\ skipped_count = 2

\* a live run of the scenario has ended
C9_Witness == LiveDone /\ Scenario

\* the document with identifier id is in user_roles and active
PresentActive(id) ==
    \E i \in 1..Len(user_roles) : user_roles[i].id = id /\ user_roles[i].is_active

\* C10: when the relational insert that follows an insert_one raises, that step
\* leaves the document store as it is with the inserted record present and
\* active, rolls back the relational transaction only, adds one to error_count
\* and nothing to created_count, and the run goes on with the next member or
\* team; and the inserted record stays present and active for the rest of the run.
C10_NonRollback ==
    /\ [][(pc \in {"OwnerPgInsert", "MemberPgInsert"} /\ hist'.nfail = hist.nfail + 1) =>
            /\ user_roles' = user_roles
            /\ PresentActive(inserted_id)
            /\ pg_rows' = pg_rows /\ pg_work' = pg_rows
            /\ hist'.rollbacks = hist.rollbacks + 1
            /\ error_count' = error_count + 1
            /\ created_count' = created_count
            /\ pc' \in {"NextMember", "NextTeam"}]_vars
    /\ [](\A id \in hist.partial : PresentActive(id))

\* a run has ended in which the relational insert of an inserted record raised
C10_Witness ==
    /\ Done /\ hist.partial # {}
    /\ hist.faulted \cap {"OwnerPgInsert", "MemberPgInsert"} # {}

CounterNames == {"created", "deleted", "deactivated", "skipped", "errors"}

\* C11: every run reaches Closed, and at Closed the summary of the five counters
\* has been emitted with their final values and exactly the connections the run
\* acquired have been closed.
C11_ReachesClosed ==
    /\ (pc # "Closed") ~> (pc = "Closed")
    /\ [](Done =>
            /\ DOMAIN hist.reported = CounterNames
            /\ hist.reported = [created |-> created_count, deleted |-> deleted_count,
                                deactivated |-> deactivated_count,
                                skipped |-> skipped_count, errors |-> error_count]
            /\ hist.closed = hist.acquired)

\* a run has ended whose PostgreSQL connection failed after MongoDB was acquired
C11_Witness ==
    /\ Done /\ "ConnectPg" \in hist.faulted
    /\ hist.closed = {"mongo"}

\* acquiring one of the two store handles raised in this run
ConnectFailed == hist.faulted \cap {"ConnectMongo", "ConnectPg"} # {}

ZeroCounters == [created |-> 0, deleted |-> 0, deactivated |-> 0, skipped |-> 0,
                 errors |-> 0]

\* C12: once acquiring a store handle has failed, the run audits no team, classifies
\* and applies no action, leaves both stores as they were, and reports five zeros.
C12_ConnectFatal ==
    ConnectFailed =>
        /\ hist.audited = {} /\ teams_data = <<>>
        /\ hist.inserted = {} /\ hist.deleted = {} /\ hist.deactivated = {}
        /\ hist.pg_exec = 0 /\ hist.commits = 0
        /\ user_roles = hist.roles0
        /\ pg_rows = hist.pg0 /\ pg_work = hist.pg0
        /\ created_count = 0 /\ deleted_count = 0 /\ deactivated_count = 0
        /\ skipped_count = 0 /\ error_count = 0
        /\ (Done => hist.reported = ZeroCounters)

\* a run over a team with members and roles to audit has ended on a failed
\* MongoDB connection
C12_Witness ==
    /\ Done /\ "ConnectMongo" \in hist.faulted
    /\ Len(teams) > 0 /\ Len(details) > 0 /\ Len(user_roles) > 0
    /\ hist.reported = ZeroCounters

\* the phases of a run, by the position in run_data_fix
ConnectingPcs == {"ConnectMongo", "ConnectPg"}
TeamPcs == {"LoadTeams", "NextTeam", "NextMember"}
OwnerPcs == {"OwnerQuery", "OwnerInsert", "OwnerPgInsert", "OwnerCommit"}
MemberPcs == {"MemberQuery", "MemberRole", "MemberDelete", "MemberPgDelete",
              "MemberDelCommit", "MemberInsert", "MemberPgInsert", "MemberCommit"}
SweepPcs == {"SweepLoad", "SweepRole", "SweepUpdate", "SweepPgUpdate", "SweepCommit"}
ReportPcs == {"Critical", "Report", "Close"}

\* Connecting, auditing (teams, owner roles and member roles), sweeping, reporting,
\* closed
PhaseRank(p) ==
    CASE p \in ConnectingPcs -> 1
      [] p \in TeamPcs \cup OwnerPcs \cup MemberPcs -> 2
      [] p \in SweepPcs -> 3
      [] p \in ReportPcs -> 4
      [] OTHER -> 5

\* the membership at position m of the memberships of team number t
MemberAt(t, m) == FindDetails(teams[t].id)[m]

\* a membership of a non-creator was audited in this run before membership m of
\* team number t
MemberStepBefore(t, m) ==
    \E a \in hist.audited :
        /\ a[3] = 0
        /\ MemberAt(a[1], a[2]).user_id # teams[a[1]].created_by
        /\ a[1] < t \/ (a[1] = t /\ a[2] < m)

\* C13 (as claimed): the phases are strictly linear; in particular no owner-role
\* auditing step occurs after a member-role auditing step.
C13_LinearClaimed == pc \in OwnerPcs => ~MemberStepBefore(ti, mi)

\* C13 (amended): the run never returns from sweeping, reporting or closed to an
\* earlier phase, and inside the auditing phase the memberships are audited in
\* team order and, per team, in membership order, owner and member audits
\* interleaved as the memberships come.
C13_Phases ==
    /\ [][pc # "Closed" => PhaseRank(pc') >= PhaseRank(pc)]_vars
    /\ [](pc \in TeamPcs \cup OwnerPcs \cup MemberPcs =>
            \A a \in hist.audited : a[1] < ti \/ (a[1] = ti /\ a[2] <= mi))

\* a run has ended in which the creator's owner roles were audited after another
\* member's roles
C13_Witness ==
    /\ Done
    /\ \E a \in hist.audited : a[3] >= 1 /\ MemberStepBefore(a[1], a[2])

\* the sweep is iterating all_active_roles
Sweeping == pc \in SweepPcs \ {"SweepLoad"}

\* the ids of the TEAM role records that are active now or were deactivated by this run
ActiveBeforeSweep ==
    {user_roles[k].id : k \in {j \in 1..Len(user_roles) :
        /\ user_roles[j].scope = roles_scope
        /\ user_roles[j].is_active \/ user_roles[j].id \in hist.deactivated}}

\* a step taken once the sweep has started is no per-team step
NoTeamStepAfterSweep ==
    pc \in SweepPcs \cup ReportPcs =>
        /\ pc' \notin ConnectingPcs \cup TeamPcs \cup OwnerPcs \cup MemberPcs
        /\ hist'.inserted = hist.inserted /\ hist'.deleted = hist.deleted
        /\ created_count' = created_count /\ deleted_count' = deleted_count
        /\ skipped_count' = skipped_count

\* C14: the sweep starts once, after the loop over all teams has ended; no role is
\* deactivated before the last per-team create, delete or skip, and the list the
\* sweep iterates was read after every per-team mutation.
C14_SweepLast ==
    /\ [](pc \in SweepPcs => teams_data = teams /\ ti = Len(teams) + 1)
    /\ [](hist.deactivated # {} \/ deactivated_count > 0 =>
              pc \in SweepPcs \cup ReportPcs \cup {"Closed"})
    /\ [](Sweeping => {role_list[k].id : k \in 1..Len(role_list)} = ActiveBeforeSweep)
    /\ [][pc' = "SweepLoad" /\ pc # "SweepLoad" => pc = "NextTeam"]_vars
    /\ [][NoTeamStepAfterSweep]_vars

\* a live run over two teams created roles for a team and then deactivated a
\* lingering role
C14_Witness ==
    /\ Done /\ ~dry_run /\ Len(teams) = 2
    /\ hist.inserted # {} /\ hist.deactivated # {}

\* the number of active TEAM records of collection coll for user u, team t, role r
ActiveCount(coll, u, t, r) ==
    Cardinality({k \in 1..Len(coll) :
        /\ coll[k].user_id = u /\ coll[k].team_id = t /\ coll[k].role_name = r
        /\ coll[k].scope = roles_scope /\ coll[k].is_active})

\* a step adds an active record for a key only if the key had none, and then one
CreateOnlyMissing ==
    user_roles' # user_roles =>
        \A u \in Users, t \in Range(TeamSeq), r \in Range(TeamRole) :
            ActiveCount(user_roles', u, t, r) > ActiveCount(user_roles, u, t, r) =>
                /\ ActiveCount(user_roles, u, t, r) = 0
                /\ ActiveCount(user_roles', u, t, r) = 1

\* C15: the run never inserts a role record for (user, team, role, TEAM) while an
\* active record with the same key exists, so no step raises the number of active
\* records of a key beyond one, duplicate membership records included.
C15_CreateNoOp ==
    /\ [][CreateOnlyMissing]_vars
    /\ [](pc = "OwnerInsert" =>
            ActiveCount(user_roles, CurTeam.created_by, CurTeam.id, TeamRole[ri]) = 0)
    /\ [](pc = "MemberInsert" =>
            ActiveCount(user_roles, CurMember.user_id, CurTeam.id, MEMBER) = 0)

\* a live run has ended that inserted roles for a creator who has two membership
\* records of the team and already held an active role
C15_Witness ==
    /\ Done /\ ~dry_run /\ hist.inserted # {}
    /\ \E i, j \in 1..Len(details) :
          /\ i # j /\ details[i] = details[j]
          /\ details[i].user_id = Creator(details[i].team_id)
          /\ \E k \in DOMAIN hist.roles0 :
                /\ hist.roles0[k].user_id = details[i].user_id
                /\ hist.roles0[k].team_id = details[i].team_id
                /\ hist.roles0[k].is_active
                /\ \E id \in hist.inserted : \E m \in 1..Len(user_roles) :
                      /\ user_roles[m].id = id
                      /\ user_roles[m].user_id = details[i].user_id

\* C16 (as claimed): a record the previous run inserted into the document store
\* without its relational row has, after a live run in which no store call raises,
\* a relational row with its identifier as mongo_id.
C16_Recovered ==
    (Done /\ prev.valid /\ ~dry_run /\ hist.nfail = 0) =>
        \A id \in prev.partial :
            PresentActive(id) => \E x \in pg_rows : x.mongo_id = ObjectIdStr(id)

\* the mongo_id values of the relational rows in rows
MongoIds(rows) == {x.mongo_id : x \in rows}

\* the relational rows the run has added, committed or not
AddedRows == {x \in pg_work \cup pg_rows : x.mongo_id \notin MongoIds(hist.pg0)}

\* C17: the relational statement of an action is executed after the document-store
\* call of that action, and every relational row the run inserts carries as
\* mongo_id the string of the identifier of a record the run inserted into the
\* document store before, with that record's user, team and role.
C17_MongoFirst ==
    /\ [](hist.pg_inserted \subseteq {ObjectIdStr(id) : id \in hist.inserted})
    /\ [](\A x \in AddedRows :
            /\ x.mongo_id \in hist.pg_inserted
            /\ \E k \in 1..Len(user_roles) :
                  /\ user_roles[k].id \in hist.inserted
                  /\ x = Mirror(user_roles[k]))
    /\ [](pc \in {"OwnerPgInsert", "MemberPgInsert"} =>
            inserted_id \in hist.inserted /\ PresentActive(inserted_id))
    /\ [](pc = "MemberPgDelete" => role_list[rj].id \in hist.deleted)
    /\ [](pc = "SweepPgUpdate" => role_list[rj].id \in hist.deactivated)
    /\ [](dry_run => hist.pg_exec = 0 /\ hist.inserted = {})

\* a live run has ended that committed a relational row for a record it inserted
\* and deleted a record from both stores
C17_Witness ==
    /\ Done /\ ~dry_run /\ hist.deleted # {}
    /\ \E x \in pg_rows : x.mongo_id \in hist.pg_inserted

\* the positions between a relational statement and its commit
CommitPcs == {"OwnerCommit", "MemberCommit", "MemberDelCommit", "SweepCommit"}

\* the committed relational table changes only by a commit, which makes it the
\* working copy; a rollback resets the working copy to the committed table
TransactionStep ==
    /\ pg_rows' # pg_rows => hist'.commits = hist.commits + 1 /\ pg_rows' = pg_work
    /\ hist'.rollbacks > hist.rollbacks =>
          /\ pg_work' = pg_rows'
          /\ pg_rows' = pg_rows \/ hist'.commits = hist.commits + 1

\* C18: the relational connection holds an uncommitted change only between the
\* statement of an action and its commit, so every action starts on a clean
\* transaction and a rollback, of a handler or of the outer except, leaves the
\* committed effect of the earlier actions in place.
C18_TransactionPerAction ==
    /\ [](pg_work # pg_rows => pc \in CommitPcs)
    /\ [][TransactionStep]_vars

\* a live run has ended in which an action was committed and the commit of another
\* one raised
C18_Witness ==
    /\ Done /\ ~dry_run /\ hist.commits > 0 /\ pg_rows # hist.pg0
    /\ hist.faulted \cap CommitPcs # {}
    /\ hist.rollbacks > 0

\* every record of coll has exactly one row of rows with its identifier as mongo_id,
\* with the same active flag, and every row of rows belongs to a record of coll
Agree(coll, rows) ==
    /\ \A i \in 1..Len(coll) :
          /\ Cardinality({x \in rows : x.mongo_id = ObjectIdStr(coll[i].id)}) = 1
          /\ \A x \in rows : x.mongo_id = ObjectIdStr(coll[i].id) =>
                                x.is_active = coll[i].is_active
    /\ \A x \in rows : \E i \in 1..Len(coll) : x.mongo_id = ObjectIdStr(coll[i].id)

\* C19 (as claimed): a live run without a store failure that starts with the two
\* stores in agreement ends with the two stores in agreement; a delete removes
\* the relational row of the deleted record only.
C19_Agreement == (LiveDone /\ Agree(hist.roles0, hist.pg0)) => Agree(user_roles, pg_rows)

\* C20 (as claimed): for a team whose creator has no membership record in it, a
\* live run without a store failure inserts no role record of the creator for
\* that team, and after the sweep the creator holds no active TEAM role for it.
C20_CreatorNotMember ==
    LiveDone =>
        \A k \in 1..Len(teams) :
            ~UserStillMember(teams[k].created_by, teams[k].id) =>
                /\ \A j \in 1..Len(user_roles) :
                       (/\ user_roles[j].user_id = teams[k].created_by
                        /\ user_roles[j].team_id = teams[k].id)
                           => user_roles[j].id \notin hist.inserted
                /\ ActiveRoleNames(user_roles, teams[k].created_by, teams[k].id) = {}

====
